---- MODULE Spec2Model ----
(***************************************************************************)
(* A model of marko_polo (main.c): a fixed-order Markov chain quote        *)
(* generator.  Words are C strings, modelled as sequences of byte values.  *)
(* Linked lists are sequences, head first.  size_t arithmetic of the hash  *)
(* is 64-bit, carried in four 16-bit limbs.                                *)
(***************************************************************************)
EXTENDS Integers, Sequences, FiniteSets

VARIABLES
  MARKOV_CONTEXT_SIZE,  \* main.c:28, fixed at build time
  MAX_QUOTE_LENGTH,     \* main.c:34, fixed at build time
  HASH_MAP_SIZE,        \* main.c:40, fixed at build time
  pc,                   \* position of the running program / driver
  file_ok,              \* whether fopen(FILE_NAME) succeeds
  file,                 \* the lines of the training file, as fgets returns them
  pos,                  \* number of lines fgets has returned so far
  context,              \* the running MarkovContext (trainer / library client)
  model,                \* the MarkovModel, or NoModel for a NULL pointer
  adds,                 \* history: every (context, word) passed to markov_model_add_data
  quote_context,        \* the context local to markov_model_generate_quote
  counter,              \* the counter local to markov_model_generate_quote
  quote,                \* the quote string built by markov_model_generate_quote
  word,                 \* the last result of a lookup / sample
  ub,                   \* history: the undefined behaviour the run has executed, if any
  get_next_calls,       \* history: number of markov_model_get_next calls made
  value,                \* a MarkovValue list exercised on its own
  calls,                \* history: number of markov_value_add_word calls per word
  pushed                \* history: words pushed since the context was last cleared

vars == << MARKOV_CONTEXT_SIZE, MAX_QUOTE_LENGTH, HASH_MAP_SIZE, pc, file_ok, file,
           pos, context, model, adds, quote_context, counter, quote, word,
           ub, get_next_calls, value, calls, pushed >>

(***************************************************************************)
(* Bounds of the model.                                                    *)
(***************************************************************************)
\* the longest training file, in lines
MaxLines == 3
\* the largest MAX_QUOTE_LENGTH the build is configured with
MaxQuoteLength == 2
\* the most markov_model_add_data calls a library client makes
MaxAdds == 2
\* the most markov_value_add_word calls made on one list
MaxValueAdds == 10
\* the most words pushed into a context exercised on its own
MaxPushes == 4
\* the largest value rand() returns
RandMax == 15

(***************************************************************************)
(* Strings.                                                                *)
(***************************************************************************)
\* the NULL char pointer: no C string holds a zero byte
NULL == << 0 >>
\* the NULL MarkovModel pointer
NoModel == [null |-> TRUE]

ch_dot == 46
ch_bang == 33
ch_quest == 63
ch_dash == 45
ch_space == 32
ch_tab == 9
ch_nl == 10
ch_cr == 13

w_a == << 97 >>
w_b == << 98 >>
w_c_dot == << 99, ch_dot >>
w_d_dot == << 100, ch_dot >>

\* "a b c.\n"
line_abc == << 97, ch_space, 98, ch_space, 99, ch_dot, ch_nl >>
\* "a b d.\n"
line_abd == << 97, ch_space, 98, ch_space, 100, ch_dot, ch_nl >>
\* "a a a a a\n"
line_aaaaa == << 97, ch_space, 97, ch_space, 97, ch_space, 97, ch_space, 97, ch_nl >>
\* "a\n"
line_a == << 97, ch_nl >>
\* "\n"
line_blank == << ch_nl >>
\* " \t\r\n"
line_ws == << ch_space, ch_tab, ch_cr, ch_nl >>
\* " -x a\n"
line_skip == << ch_space, ch_dash, 120, ch_space, 97, ch_nl >>

LinePool == { line_abc, line_abd, line_aaaaa, line_a, line_blank, line_ws, line_skip }

Files == UNION { [1..n -> LinePool] : n \in 0..MaxLines }

ContextSizes == { 2, 3 }
HashMapSizes == { 1, 420 }
QuoteLengths == 1..MaxQuoteLength

\* the delimiters given to strtok
Delimiters == { ch_space, ch_tab, ch_nl, ch_cr }

RECURSIVE strtok_from(_, _, _)
\* the tokens strtok yields over a line: maximal runs of non-delimiter bytes
strtok_from(line, i, cur) ==
  IF i > Len(line)
    THEN (IF cur = << >> THEN << >> ELSE << cur >>)
    ELSE IF line[i] \in Delimiters
      THEN (IF cur = << >> THEN << >> ELSE << cur >>) \o strtok_from(line, i + 1, << >>)
      ELSE strtok_from(line, i + 1, Append(cur, line[i]))

strtok_all(line) == strtok_from(line, 1, << >>)

(***************************************************************************)
(* MarkovContext.                                                          *)
(***************************************************************************)
markov_context_new == [i \in 1..MARKOV_CONTEXT_SIZE |-> NULL]

\* a reset that forgets to clear the slots
markov_context_reset_kept(ctx) == ctx

markov_context_reset(ctx) == [i \in 1..MARKOV_CONTEXT_SIZE |-> NULL]

\* a push that overwrites the last slot without shifting
markov_context_push_word_unshifted(ctx, w) ==
  [i \in 1..MARKOV_CONTEXT_SIZE |-> IF i < MARKOV_CONTEXT_SIZE THEN ctx[i] ELSE w]

markov_context_push_word(ctx, w) ==
  [i \in 1..MARKOV_CONTEXT_SIZE |-> IF i < MARKOV_CONTEXT_SIZE THEN ctx[i + 1] ELSE w]

\* size_t is 64 bits wide: four limbs of 16 bits, least significant first
LimbBase == 65536

\* hash = ((hash << 5) + hash) + c, modulo 2^64
hash_step(h, c) ==
  LET t1 == h[1] * 33 + c
      t2 == h[2] * 33 + (t1 \div LimbBase)
      t3 == h[3] * 33 + (t2 \div LimbBase)
      t4 == h[4] * 33 + (t3 \div LimbBase)
  IN  << t1 % LimbBase, t2 % LimbBase, t3 % LimbBase, t4 % LimbBase >>

RECURSIVE hash_word(_, _, _)
hash_word(h, w, i) ==
  IF i > Len(w) THEN h ELSE hash_word(hash_step(h, w[i]), w, i + 1)

RECURSIVE hash_slots(_, _, _)
hash_slots(h, ctx, i) ==
  IF i > MARKOV_CONTEXT_SIZE
    THEN h
    ELSE hash_slots(IF ctx[i] # NULL THEN hash_word(h, ctx[i], 1) ELSE hash_step(h, 0),
                    ctx, i + 1)

markov_context_get_hash(ctx) == hash_slots(<< 5381, 0, 0, 0 >>, ctx, 1)

\* hash % size, for a size below 2^15
hash_mod(h, size) ==
  LET r4 == h[4] % size
      r3 == (r4 * LimbBase + h[3]) % size
      r2 == (r3 * LimbBase + h[2]) % size
  IN  (r2 * LimbBase + h[1]) % size

\* a match that lets an unfilled slot match any word
markov_context_check_match_wild(a, b) ==
  \A i \in 1..MARKOV_CONTEXT_SIZE :
    \/ a[i] = NULL
    \/ b[i] = NULL
    \/ a[i] = b[i]

\* a match with the strcmp test inverted
markov_context_check_match_inverted(a, b) ==
  \A i \in 1..MARKOV_CONTEXT_SIZE :
    \/ a[i] = NULL /\ b[i] = NULL
    \/ a[i] # NULL /\ b[i] # NULL /\ a[i] # b[i]

markov_context_check_match(a, b) ==
  \A i \in 1..MARKOV_CONTEXT_SIZE :
    \/ a[i] = NULL /\ b[i] = NULL
    \/ a[i] # NULL /\ b[i] # NULL /\ a[i] = b[i]

RECURSIVE copy_from(_, _, _)
copy_from(new_context, original_context, i) ==
  IF i > MARKOV_CONTEXT_SIZE
    THEN new_context
    ELSE copy_from(IF original_context[i] # NULL
                     THEN markov_context_push_word(new_context, original_context[i])
                     ELSE new_context,
                   original_context, i + 1)

RECURSIVE copy_front_from(_, _, _, _)
copy_front_from(new_context, original_context, i, j) ==
  IF i > MARKOV_CONTEXT_SIZE
    THEN new_context
    ELSE IF original_context[i] # NULL
      THEN copy_front_from([new_context EXCEPT ![j] = original_context[i]],
                           original_context, i + 1, j + 1)
      ELSE copy_front_from(new_context, original_context, i + 1, j)

\* a copy that stores the filled slots from slot 0 on
markov_context_copy_front(original_context) ==
  copy_front_from(markov_context_new, original_context, 1, 1)

markov_context_copy(original_context) == copy_from(markov_context_new, original_context, 1)

(***************************************************************************)
(* MarkovValue: a list of [word, count].                                   *)
(***************************************************************************)
markov_value_new(w) == [word |-> w, count |-> 1]

\* an add that increments the head of the list instead of the matching node
markov_value_add_word_head(v, w) ==
  IF \E i \in 1..Len(v) : v[i].word = w
    THEN [v EXCEPT ![1].count = @ + 1]
    ELSE << markov_value_new(w) >> \o v

\* an add that never searches the list
markov_value_add_word_prepend(v, w) == << markov_value_new(w) >> \o v

markov_value_add_word(v, w) ==
  IF \E i \in 1..Len(v) : v[i].word = w
    THEN LET k == CHOOSE i \in 1..Len(v) :
                    v[i].word = w /\ \A j \in 1..(i - 1) : v[j].word # w
         IN  [v EXCEPT ![k].count = @ + 1]
    ELSE << markov_value_new(w) >> \o v

RECURSIVE total_count(_)
total_count(v) == IF v = << >> THEN 0 ELSE Head(v).count + total_count(Tail(v))

RECURSIVE walk_value_inclusive(_, _, _)
\* a walk that compares with <= instead of <
walk_value_inclusive(v, r, first) ==
  IF v = << >>
    THEN first
    ELSE IF r <= Head(v).count
      THEN Head(v).word
      ELSE walk_value_inclusive(Tail(v), r - Head(v).count, first)

RECURSIVE walk_value(_, _, _)
walk_value(v, r, first) ==
  IF v = << >>
    THEN first
    ELSE IF r < Head(v).count
      THEN Head(v).word
      ELSE walk_value(Tail(v), r - Head(v).count, first)

\* rnd is the value rand() returns
markov_value_get_random(v, rnd) == walk_value(v, rnd % total_count(v), v[1].word)

(***************************************************************************)
(* MarkovNode: a list of [context, value].                                 *)
(***************************************************************************)
\* an add that does not link the new node to the rest of the bucket
markov_node_add_node_unlinked(node, ctx, w) ==
  IF \E i \in 1..Len(node) : markov_context_check_match(node[i].context, ctx)
    THEN LET k == CHOOSE i \in 1..Len(node) :
                    /\ markov_context_check_match(node[i].context, ctx)
                    /\ \A j \in 1..(i - 1) : ~markov_context_check_match(node[j].context, ctx)
         IN  [node EXCEPT ![k].value = markov_value_add_word(@, w)]
    ELSE << [context |-> markov_context_copy(ctx),
             value |-> markov_value_add_word(<< >>, w)] >>

markov_node_add_node(node, ctx, w) ==
  IF \E i \in 1..Len(node) : markov_context_check_match(node[i].context, ctx)
    THEN LET k == CHOOSE i \in 1..Len(node) :
                    /\ markov_context_check_match(node[i].context, ctx)
                    /\ \A j \in 1..(i - 1) : ~markov_context_check_match(node[j].context, ctx)
         IN  [node EXCEPT ![k].value = markov_value_add_word(@, w)]
    ELSE << [context |-> markov_context_copy(ctx),
             value |-> markov_value_add_word(<< >>, w)] >> \o node

(***************************************************************************)
(* MarkovModel.                                                            *)
(***************************************************************************)
markov_model_new(size) == [size |-> size, nodes |-> [i \in 0..(size - 1) |-> << >>]]

\* an add whose index is computed from the hash narrowed to 32 bits
markov_model_add_data_narrow(m, ctx, w) ==
  IF m = NoModel
    THEN m
    ELSE LET h == markov_context_get_hash(ctx)
             index == hash_mod(<< h[1], h[2], 0, 0 >>, m.size)
         IN  [m EXCEPT !.nodes[index] = markov_node_add_node(@, ctx, w)]

markov_model_add_data(m, ctx, w) ==
  IF m = NoModel
    THEN m
    ELSE LET index == hash_mod(markov_context_get_hash(ctx), m.size)
         IN  [m EXCEPT !.nodes[index] = markov_node_add_node(@, ctx, w)]

\* a lookup that takes the first entry of the bucket without matching contexts
markov_model_get_next_unmatched(m, ctx, rnd) ==
  LET node == m.nodes[hash_mod(markov_context_get_hash(ctx), m.size)]
  IN  IF node # << >>
        THEN markov_value_get_random(node[1].value, rnd)
        ELSE NULL

\* m is a model, not NoModel; rnd is the value rand() returns
markov_model_get_next(m, ctx, rnd) ==
  LET node == m.nodes[hash_mod(markov_context_get_hash(ctx), m.size)]
  IN  IF \E i \in 1..Len(node) : markov_context_check_match(node[i].context, ctx)
        THEN LET k == CHOOSE i \in 1..Len(node) :
                        /\ markov_context_check_match(node[i].context, ctx)
                        /\ \A j \in 1..(i - 1) :
                             ~markov_context_check_match(node[j].context, ctx)
             IN  markov_value_get_random(node[k].value, rnd)
        ELSE NULL

\* an end test that forgets the full stop
check_end_condition_no_dot(w) == \E i \in 1..Len(w) : w[i] \in { ch_bang, ch_quest }

check_end_condition(w) == \E i \in 1..Len(w) : w[i] \in { ch_dot, ch_bang, ch_quest }

\* quote is never NULL in the program; the empty string is << >>
add_word_to_quote(q, w) ==
  IF w = NULL THEN q
  ELSE IF q # << >> THEN q \o << ch_space >> \o w ELSE w

(***************************************************************************)
(* The program: main() loads the file into a model, then generates a quote.*)
(***************************************************************************)
Init ==
  /\ MARKOV_CONTEXT_SIZE \in ContextSizes
  /\ MAX_QUOTE_LENGTH \in QuoteLengths
  /\ HASH_MAP_SIZE \in HashMapSizes
  /\ pc = "main"
  /\ file_ok \in BOOLEAN
  /\ file \in (IF file_ok THEN Files ELSE { << >> })
  /\ pos = 0
  /\ context = markov_context_new
  /\ model = NoModel
  /\ adds = << >>
  /\ quote_context = markov_context_new
  /\ counter = 0
  /\ quote = << >>
  /\ word = NULL
  /\ ub = "none"
  /\ get_next_calls = 0
  /\ value = << >>
  /\ calls = << >>
  /\ pushed = << >>

RECURSIVE add_and_push_late(_, _, _)
\* a loop that pushes the token before adding it
add_and_push_late(m, ctx, tokens) ==
  IF tokens = << >>
    THEN [model |-> m, context |-> ctx]
    ELSE add_and_push_late(
           markov_model_add_data(m, markov_context_push_word(ctx, Head(tokens)), Head(tokens)),
           markov_context_push_word(ctx, Head(tokens)),
           Tail(tokens))

RECURSIVE add_and_push(_, _, _)
\* the inner while loop of markov_model_load_file over the tokens of one line
add_and_push(m, ctx, tokens) ==
  IF tokens = << >>
    THEN [model |-> m, context |-> ctx]
    ELSE add_and_push(markov_model_add_data(m, ctx, Head(tokens)),
                      markov_context_push_word(ctx, Head(tokens)),
                      Tail(tokens))

RECURSIVE added_pairs(_, _)
\* the (context, word) arguments of the markov_model_add_data calls of one line
added_pairs(ctx, tokens) ==
  IF tokens = << >>
    THEN << >>
    ELSE << [context |-> ctx, word |-> Head(tokens)] >>
         \o added_pairs(markov_context_push_word(ctx, Head(tokens)), Tail(tokens))

\* fopen fails: perror, return NULL
LoadFileUnavailable ==
  /\ pc = "main"
  /\ ~file_ok
  /\ model' = NoModel
  /\ pc' = "loaded"
  /\ UNCHANGED << MARKOV_CONTEXT_SIZE, MAX_QUOTE_LENGTH, HASH_MAP_SIZE, file_ok, file, pos,
                  context, adds, quote_context, counter, quote, word, ub,
                  get_next_calls, value, calls, pushed >>

\* fopen succeeds: a fresh running context and an empty model
LoadFileOpen ==
  /\ pc = "main"
  /\ file_ok
  /\ context' = markov_context_new
  /\ model' = markov_model_new(HASH_MAP_SIZE)
  /\ pc' = "train"
  /\ UNCHANGED << MARKOV_CONTEXT_SIZE, MAX_QUOTE_LENGTH, HASH_MAP_SIZE, file_ok, file, pos,
                  adds, quote_context, counter, quote, word, ub,
                  get_next_calls, value, calls, pushed >>

\* fgets returns a line without tokens: the running context is reset
TrainBlankLine ==
  /\ pc = "train"
  /\ pos < Len(file)
  /\ strtok_all(file[pos + 1]) = << >>
  /\ pos' = pos + 1
  /\ context' = markov_context_reset(context)
  /\ UNCHANGED << MARKOV_CONTEXT_SIZE, MAX_QUOTE_LENGTH, HASH_MAP_SIZE, pc, file_ok, file,
                  model, adds, quote_context, counter, quote, word, ub,
                  get_next_calls, value, calls, pushed >>

\* a skip that also resets the running context, as a blank line does
TrainSkipLine_resetting ==
  /\ pc = "train"
  /\ pos < Len(file)
  /\ strtok_all(file[pos + 1]) # << >>
  /\ strtok_all(file[pos + 1])[1][1] = ch_dash
  /\ pos' = pos + 1
  /\ context' = markov_context_reset(context)
  /\ UNCHANGED << MARKOV_CONTEXT_SIZE, MAX_QUOTE_LENGTH, HASH_MAP_SIZE, pc, file_ok, file,
                  model, adds, quote_context, counter, quote, word, ub,
                  get_next_calls, value, calls, pushed >>

\* fgets returns a line whose first token starts with '-': nothing is done
TrainSkipLine ==
  /\ pc = "train"
  /\ pos < Len(file)
  /\ strtok_all(file[pos + 1]) # << >>
  /\ strtok_all(file[pos + 1])[1][1] = ch_dash
  /\ pos' = pos + 1
  /\ UNCHANGED << MARKOV_CONTEXT_SIZE, MAX_QUOTE_LENGTH, HASH_MAP_SIZE, pc, file_ok, file,
                  context, model, adds, quote_context, counter, quote, word, ub,
                  get_next_calls, value, calls, pushed >>

\* fgets returns any other line: every token is added under the running
\* context and then pushed into it
TrainRetainedLine ==
  /\ pc = "train"
  /\ pos < Len(file)
  /\ strtok_all(file[pos + 1]) # << >>
  /\ strtok_all(file[pos + 1])[1][1] # ch_dash
  /\ LET tokens == strtok_all(file[pos + 1])
         after == add_and_push(model, context, tokens)
     IN  /\ model' = after.model
         /\ context' = after.context
         /\ adds' = adds \o added_pairs(context, tokens)
  /\ pos' = pos + 1
  /\ UNCHANGED << MARKOV_CONTEXT_SIZE, MAX_QUOTE_LENGTH, HASH_MAP_SIZE, pc, file_ok, file,
                  quote_context, counter, quote, word, ub,
                  get_next_calls, value, calls, pushed >>

\* fgets returns NULL at end of file: the model is returned
TrainEndOfFile ==
  /\ pc = "train"
  /\ pos = Len(file)
  /\ pc' = "loaded"
  /\ UNCHANGED << MARKOV_CONTEXT_SIZE, MAX_QUOTE_LENGTH, HASH_MAP_SIZE, file_ok, file, pos,
                  context, model, adds, quote_context, counter, quote, word, ub,
                  get_next_calls, value, calls, pushed >>

\* main calls markov_model_generate_quote with whatever the load returned
GenerateStart ==
  /\ pc = "loaded"
  /\ quote_context' = markov_context_new
  /\ counter' = 0
  /\ quote' = << >>
  /\ pc' = "generate"
  /\ UNCHANGED << MARKOV_CONTEXT_SIZE, MAX_QUOTE_LENGTH, HASH_MAP_SIZE, file_ok, file, pos,
                  context, model, adds, word, ub, get_next_calls, value, calls, pushed >>

\* the loop condition counter <= MAX_QUOTE_LENGTH fails
GenerateLoopExit ==
  /\ pc = "generate"
  /\ ~(counter <= MAX_QUOTE_LENGTH)
  /\ pc' = "done"
  /\ UNCHANGED << MARKOV_CONTEXT_SIZE, MAX_QUOTE_LENGTH, HASH_MAP_SIZE, file_ok, file, pos,
                  context, model, adds, quote_context, counter, quote, word, ub,
                  get_next_calls, value, calls, pushed >>

\* markov_model_get_next reads model->nodes through a NULL model: undefined
\* behaviour, a fault on every build where page zero is unmapped
GenerateOnNoModel ==
  /\ pc = "generate"
  /\ counter <= MAX_QUOTE_LENGTH
  /\ model = NoModel
  /\ get_next_calls' = get_next_calls + 1
  /\ ub' = "model->nodes of NULL"
  /\ pc' = "crashed"
  /\ UNCHANGED << MARKOV_CONTEXT_SIZE, MAX_QUOTE_LENGTH, HASH_MAP_SIZE, file_ok, file, pos,
                  context, model, adds, quote_context, counter, quote, word,
                  value, calls, pushed >>

\* markov_model_get_next returns NULL; the word is pushed before it is tested,
\* so strdup(NULL) runs: undefined behaviour.  Either the process faults, or
\* strdup hands NULL back, the push completes and the loop breaks.
GenerateAbsent ==
  /\ pc = "generate"
  /\ counter <= MAX_QUOTE_LENGTH
  /\ model # NoModel
  /\ markov_model_get_next(model, quote_context, 0) = NULL
  /\ get_next_calls' = get_next_calls + 1
  /\ word' = NULL
  /\ ub' = "strdup(NULL)"
  /\ \/ /\ pc' = "crashed"
        /\ UNCHANGED quote_context
     \/ /\ pc' = "done"
        /\ quote_context' = markov_context_push_word(quote_context, NULL)
  /\ UNCHANGED << MARKOV_CONTEXT_SIZE, MAX_QUOTE_LENGTH, HASH_MAP_SIZE, file_ok, file, pos,
                  context, model, adds, counter, quote, value, calls, pushed >>

\* a loop that forgets counter++
GenerateWord_uncounted ==
  /\ pc = "generate"
  /\ counter <= MAX_QUOTE_LENGTH
  /\ model # NoModel
  /\ \E rnd \in 0..RandMax :
       LET w == markov_model_get_next(model, quote_context, rnd)
       IN  /\ w # NULL
           /\ word' = w
           /\ quote_context' = markov_context_push_word(quote_context, w)
           /\ quote' = add_word_to_quote(quote, w)
           /\ IF check_end_condition(w)
                THEN pc' = "done"
                ELSE pc' = pc
  /\ get_next_calls' = get_next_calls + 1
  /\ UNCHANGED << MARKOV_CONTEXT_SIZE, MAX_QUOTE_LENGTH, HASH_MAP_SIZE, file_ok, file, pos,
                  context, model, adds, counter, ub, value, calls, pushed >>

\* a loop that also records the word it drew under the context it drew it in
GenerateWord_learning ==
  /\ pc = "generate"
  /\ counter <= MAX_QUOTE_LENGTH
  /\ model # NoModel
  /\ \E rnd \in 0..RandMax :
       LET w == markov_model_get_next(model, quote_context, rnd)
       IN  /\ w # NULL
           /\ word' = w
           /\ model' = markov_model_add_data(model, quote_context, w)
           /\ quote_context' = markov_context_push_word(quote_context, w)
           /\ quote' = add_word_to_quote(quote, w)
           /\ IF check_end_condition(w)
                THEN pc' = "done" /\ UNCHANGED counter
                ELSE pc' = pc /\ counter' = counter + 1
  /\ get_next_calls' = get_next_calls + 1
  /\ UNCHANGED << MARKOV_CONTEXT_SIZE, MAX_QUOTE_LENGTH, HASH_MAP_SIZE, file_ok, file, pos,
                  context, adds, ub, value, calls, pushed >>

\* a loop that tests the end condition only after the next draw
GenerateWord_late_end ==
  /\ pc = "generate"
  /\ counter <= MAX_QUOTE_LENGTH
  /\ model # NoModel
  /\ \E rnd \in 0..RandMax :
       LET w == markov_model_get_next(model, quote_context, rnd)
       IN  /\ w # NULL
           /\ word' = w
           /\ quote_context' = markov_context_push_word(quote_context, w)
           /\ quote' = add_word_to_quote(quote, w)
           /\ IF word # NULL /\ check_end_condition(word)
                THEN pc' = "done" /\ UNCHANGED counter
                ELSE pc' = pc /\ counter' = counter + 1
  /\ get_next_calls' = get_next_calls + 1
  /\ UNCHANGED << MARKOV_CONTEXT_SIZE, MAX_QUOTE_LENGTH, HASH_MAP_SIZE, file_ok, file, pos,
                  context, model, adds, ub, value, calls, pushed >>

\* markov_model_get_next returns a word: push it, append it, test it
GenerateWord ==
  /\ pc = "generate"
  /\ counter <= MAX_QUOTE_LENGTH
  /\ model # NoModel
  /\ \E rnd \in 0..RandMax :
       LET w == markov_model_get_next(model, quote_context, rnd)
       IN  /\ w # NULL
           /\ word' = w
           /\ quote_context' = markov_context_push_word(quote_context, w)
           /\ quote' = add_word_to_quote(quote, w)
           /\ IF check_end_condition(w)
                THEN pc' = "done" /\ UNCHANGED counter
                ELSE pc' = pc /\ counter' = counter + 1
  /\ get_next_calls' = get_next_calls + 1
  /\ UNCHANGED << MARKOV_CONTEXT_SIZE, MAX_QUOTE_LENGTH, HASH_MAP_SIZE, file_ok, file, pos,
                  context, model, adds, ub, value, calls, pushed >>

Next ==
  \/ LoadFileUnavailable
  \/ LoadFileOpen
  \/ TrainBlankLine
  \/ TrainSkipLine
  \/ TrainRetainedLine
  \/ TrainEndOfFile
  \/ GenerateStart
  \/ GenerateLoopExit
  \/ GenerateOnNoModel
  \/ GenerateAbsent
  \/ GenerateWord

Spec == Init /\ [][Next]_vars

(***************************************************************************)
(* A MarkovValue list on its own: any sequence of markov_value_add_word    *)
(* calls from the NULL list, and samples of the list.                      *)
(***************************************************************************)
ValueWords == { w_a, w_b, w_c_dot }

RECURSIVE sum_calls(_, _)
sum_calls(f, S) ==
  IF S = { } THEN 0 ELSE LET x == CHOOSE y \in S : TRUE IN f[x] + sum_calls(f, S \ { x })

InitValue ==
  /\ MARKOV_CONTEXT_SIZE = 3
  /\ MAX_QUOTE_LENGTH = 1
  /\ HASH_MAP_SIZE = 1
  /\ pc = "value"
  /\ file_ok = TRUE
  /\ file = << >>
  /\ pos = 0
  /\ context = markov_context_new
  /\ model = NoModel
  /\ adds = << >>
  /\ quote_context = markov_context_new
  /\ counter = 0
  /\ quote = << >>
  /\ word = NULL
  /\ ub = "none"
  /\ get_next_calls = 0
  /\ value = << >>
  /\ calls = [w \in ValueWords |-> 0]
  /\ pushed = << >>

\* value = markov_value_add_word(value, w)
ValueAddWord ==
  /\ pc \in { "value", "value_sampled" }
  /\ sum_calls(calls, ValueWords) < MaxValueAdds
  /\ \E w \in ValueWords :
       /\ value' = markov_value_add_word(value, w)
       /\ calls' = [calls EXCEPT ![w] = @ + 1]
  /\ pc' = "value"
  /\ UNCHANGED << MARKOV_CONTEXT_SIZE, MAX_QUOTE_LENGTH, HASH_MAP_SIZE, file_ok, file, pos,
                  context, model, adds, quote_context, counter, quote, word, ub,
                  get_next_calls, pushed >>

\* word = markov_value_get_random(value), on a list that is not NULL
ValueGetRandom ==
  /\ pc \in { "value", "value_sampled" }
  /\ value # << >>
  /\ \E rnd \in 0..RandMax : word' = markov_value_get_random(value, rnd)
  /\ pc' = "value_sampled"
  /\ UNCHANGED << MARKOV_CONTEXT_SIZE, MAX_QUOTE_LENGTH, HASH_MAP_SIZE, file_ok, file, pos,
                  context, model, adds, quote_context, counter, quote, ub,
                  get_next_calls, value, calls, pushed >>

NextValue == ValueAddWord \/ ValueGetRandom

SpecValue == InitValue /\ [][NextValue]_vars

(***************************************************************************)
(* A MarkovContext on its own: new, then any sequence of pushes and resets.*)
(***************************************************************************)
ContextWords == { w_a, w_b, w_c_dot }

InitContext ==
  /\ MARKOV_CONTEXT_SIZE \in ContextSizes
  /\ MAX_QUOTE_LENGTH = 1
  /\ HASH_MAP_SIZE = 1
  /\ pc = "context"
  /\ file_ok = TRUE
  /\ file = << >>
  /\ pos = 0
  /\ context = markov_context_new
  /\ model = NoModel
  /\ adds = << >>
  /\ quote_context = markov_context_new
  /\ counter = 0
  /\ quote = << >>
  /\ word = NULL
  /\ ub = "none"
  /\ get_next_calls = 0
  /\ value = << >>
  /\ calls = << >>
  /\ pushed = << >>

\* context = markov_context_push_word(context, w)
ContextPushWord ==
  /\ pc = "context"
  /\ Len(pushed) < MaxPushes
  /\ \E w \in ContextWords :
       /\ context' = markov_context_push_word(context, w)
       /\ pushed' = Append(pushed, w)
  /\ UNCHANGED << MARKOV_CONTEXT_SIZE, MAX_QUOTE_LENGTH, HASH_MAP_SIZE, pc, file_ok, file,
                  pos, model, adds, quote_context, counter, quote, word, ub,
                  get_next_calls, value, calls >>

\* context = markov_context_reset(context)
ContextReset ==
  /\ pc = "context"
  /\ pushed # << >>
  /\ context' = markov_context_reset(context)
  /\ pushed' = << >>
  /\ UNCHANGED << MARKOV_CONTEXT_SIZE, MAX_QUOTE_LENGTH, HASH_MAP_SIZE, pc, file_ok, file,
                  pos, model, adds, quote_context, counter, quote, word, ub,
                  get_next_calls, value, calls >>

NextContext == ContextPushWord \/ ContextReset

SpecContext == InitContext /\ [][NextContext]_vars

(***************************************************************************)
(* The model as a library: a client that builds contexts with push and     *)
(* reset, adds words under them and asks for the next word.                *)
(***************************************************************************)
ApiWords == { w_a, w_b }
ApiContextSizes == { 2 }

InitModel ==
  /\ MARKOV_CONTEXT_SIZE \in ApiContextSizes
  /\ MAX_QUOTE_LENGTH = 1
  /\ HASH_MAP_SIZE \in HashMapSizes
  /\ pc = "api"
  /\ file_ok = TRUE
  /\ file = << >>
  /\ pos = 0
  /\ context = markov_context_new
  /\ model = markov_model_new(HASH_MAP_SIZE)
  /\ adds = << >>
  /\ quote_context = markov_context_new
  /\ counter = 0
  /\ quote = << >>
  /\ word = NULL
  /\ ub = "none"
  /\ get_next_calls = 0
  /\ value = << >>
  /\ calls = << >>
  /\ pushed = << >>

\* context = markov_context_push_word(context, w)
ApiPushWord ==
  /\ pc \in { "api", "api_predicted" }
  /\ \E w \in ApiWords : context' = markov_context_push_word(context, w)
  /\ pc' = "api"
  /\ UNCHANGED << MARKOV_CONTEXT_SIZE, MAX_QUOTE_LENGTH, HASH_MAP_SIZE, file_ok, file,
                  pos, model, adds, quote_context, counter, quote, word, ub,
                  get_next_calls, value, calls, pushed >>

\* context = markov_context_reset(context)
ApiReset ==
  /\ pc \in { "api", "api_predicted" }
  /\ context' = markov_context_reset(context)
  /\ pc' = "api"
  /\ UNCHANGED << MARKOV_CONTEXT_SIZE, MAX_QUOTE_LENGTH, HASH_MAP_SIZE, file_ok, file,
                  pos, model, adds, quote_context, counter, quote, word, ub,
                  get_next_calls, value, calls, pushed >>

\* markov_model_add_data(model, context, w)
ApiAddData ==
  /\ pc \in { "api", "api_predicted" }
  /\ Len(adds) < MaxAdds
  /\ \E w \in ApiWords :
       /\ model' = markov_model_add_data(model, context, w)
       /\ adds' = Append(adds, [context |-> context, word |-> w])
  /\ pc' = "api"
  /\ UNCHANGED << MARKOV_CONTEXT_SIZE, MAX_QUOTE_LENGTH, HASH_MAP_SIZE, file_ok, file,
                  pos, context, quote_context, counter, quote, word, ub,
                  get_next_calls, value, calls, pushed >>

\* word = markov_model_get_next(model, context)
ApiGetNext ==
  /\ pc \in { "api", "api_predicted" }
  /\ \E rnd \in 0..RandMax : word' = markov_model_get_next(model, context, rnd)
  /\ pc' = "api_predicted"
  /\ UNCHANGED << MARKOV_CONTEXT_SIZE, MAX_QUOTE_LENGTH, HASH_MAP_SIZE, file_ok, file,
                  pos, context, model, adds, quote_context, counter, quote, ub,
                  get_next_calls, value, calls, pushed >>

NextModel == ApiPushWord \/ ApiReset \/ ApiAddData \/ ApiGetNext

SpecModel == InitModel /\ [][NextModel]_vars

(***************************************************************************)
(* Vocabulary of the properties.                                           *)
(***************************************************************************)
RECURSIVE split_quote(_, _, _)
\* the words of a quote: the runs between the single spaces that join them
split_quote(q, i, cur) ==
  IF i > Len(q)
    THEN (IF cur = << >> THEN << >> ELSE << cur >>)
    ELSE IF q[i] = ch_space
      THEN << cur >> \o split_quote(q, i + 1, << >>)
      ELSE split_quote(q, i + 1, Append(cur, q[i]))

QuoteWords == split_quote(quote, 1, << >>)

AllUnfilled == [i \in 1..MARKOV_CONTEXT_SIZE |-> NULL]

\* the buckets of a model that hold an entry
UsedBuckets(m) == { b \in DOMAIN m.nodes : m.nodes[b] # << >> }

\* the entries of a model, over all its buckets
Entries(m) ==
  IF m = NoModel
    THEN { }
    ELSE UNION { { m.nodes[b][i] : i \in 1..Len(m.nodes[b]) } : b \in UsedBuckets(m) }

\* the tables stored for a context (at most one, by the way entries are made)
TablesOf(m, ctx) == { e.value : e \in { x \in Entries(m) : x.context = ctx } }

\* the count a list holds for a word: that of the first node holding it, else 0
CountIn(v, w) ==
  IF \E i \in 1..Len(v) : v[i].word = w
    THEN v[CHOOSE i \in 1..Len(v) : v[i].word = w /\ \A j \in 1..(i - 1) : v[j].word # w].count
    ELSE 0

Training == pc = "train"
Trained == pc \in { "loaded", "generate", "done", "crashed" } /\ model # NoModel

(***************************************************************************)
(* C1.  Max-length truncation.                                             *)
(***************************************************************************)
\* every entry has one successor, which holds no terminator and leads to
\* another entry, and the fresh context has an entry
SingleSuccessorModel ==
  /\ model # NoModel
  /\ \E e \in Entries(model) : e.context = AllUnfilled
  /\ \A e \in Entries(model) :
       /\ Len(e.value) = 1
       /\ ~check_end_condition(e.value[1].word)
       /\ \E f \in Entries(model) :
            f.context = markov_context_push_word(e.context, e.value[1].word)

\* C1: when every reachable context of the trained model has exactly one
\* successor and no word holds '.', '!' or '?', the generated quote has
\* exactly MAX_QUOTE_LENGTH words.
C1_ExactlyMaxQuoteLength ==
  (pc = "done" /\ SingleSuccessorModel) => Len(QuoteWords) = MAX_QUOTE_LENGTH

\* what the code does there: one word more than MAX_QUOTE_LENGTH
C1_OneWordMore ==
  (pc = "done" /\ SingleSuccessorModel) => Len(QuoteWords) = MAX_QUOTE_LENGTH + 1

(***************************************************************************)
(* C2.  Absence stops the generator normally.                              *)
(***************************************************************************)
AbsenceReturned == get_next_calls > 0 /\ word = NULL /\ model # NoModel

\* C2: whenever markov_model_get_next returns NULL during generation, nothing
\* is applied to the absent word (no push, hence no strdup of it), the
\* generator returns, and the quote is the words appended before that call
\* (none for a model without entries).
C2_AbsenceStopsNormally ==
  AbsenceReturned =>
    /\ ub = "none"
    /\ pc = "done"
    /\ \A i \in 1..MARKOV_CONTEXT_SIZE :
         quote_context[i] = NULL => \A j \in 1..i : quote_context[j] = NULL
    /\ Len(QuoteWords) = get_next_calls - 1
    /\ (Entries(model) = { } => quote = << >>)

(***************************************************************************)
(* C3.  An input file that cannot be opened.                               *)
(***************************************************************************)
\* C3: when fopen fails, markov_model_load_file returns NULL having built no
\* model, and the run ends there: markov_model_generate_quote and
\* markov_model_get_next are never run against the missing model.
C3_UnavailableInputIsFatal ==
  ~file_ok =>
    /\ model = NoModel
    /\ adds = << >>
    /\ pc \notin { "generate", "done", "crashed" }
    /\ get_next_calls = 0
    /\ ub = "none"

(***************************************************************************)
(* C4, C5.  Lookup of contexts that were, or were never, added.            *)
(***************************************************************************)
RECURSIVE ContextsOver(_, _)
\* the contexts push and reset can build: unfilled slots, then n words
ContextsOver(W, n) ==
  IF n = 0
    THEN { AllUnfilled }
    ELSE { markov_context_push_word(c, w) : c \in ContextsOver(W, n - 1), w \in W }

ApiContexts == UNION { ContextsOver(ApiWords, n) : n \in 0..MARKOV_CONTEXT_SIZE }

AddedContexts == { adds[i].context : i \in 1..Len(adds) }
WordsAddedUnder(ctx) == { adds[i].word : i \in { j \in 1..Len(adds) : adds[j].context = ctx } }

\* C4: after any sequence of markov_model_add_data calls, markov_model_get_next
\* returns NULL for every context never passed to markov_model_add_data, also
\* when it shares its bucket with added contexts and when the model is empty.
C4_NeverAddedIsAbsent ==
  /\ \A ctx \in ApiContexts \ AddedContexts :
       \A rnd \in 0..RandMax : markov_model_get_next(model, ctx, rnd) = NULL
  /\ (pc = "api_predicted" /\ context \notin AddedContexts) => word = NULL

\* a lookup of a never-added context that shares the only bucket with added ones
C4_Witness ==
  /\ pc = "api_predicted"
  /\ HASH_MAP_SIZE = 1
  /\ adds # << >>
  /\ context \notin AddedContexts
  /\ context # AllUnfilled
  /\ word = NULL

\* C5: once markov_model_add_data(ctx, w) has been called, markov_model_get_next(ctx)
\* never returns NULL, and while w is the only word added under ctx it returns w
\* for every draw, whatever other contexts were added before or after.
C5_AddedIsFound ==
  /\ \A ctx \in AddedContexts :
       \A rnd \in 0..RandMax :
         /\ markov_model_get_next(model, ctx, rnd) \in WordsAddedUnder(ctx)
         /\ markov_model_get_next(model, ctx, rnd) # NULL
  /\ (pc = "api_predicted" /\ context \in AddedContexts) => word \in WordsAddedUnder(context)

\* a lookup of a context added once, between adds of two other contexts
C5_Witness ==
  /\ pc = "api_predicted"
  /\ Len(adds) = MaxAdds
  /\ \E i \in 1..Len(adds) :
       /\ adds[i].context = context
       /\ \A j \in 1..Len(adds) : j # i => adds[j].context # context
       /\ word = adds[i].word
       /\ i < Len(adds)

(***************************************************************************)
(* C6, C7.  Accumulation and weighted sampling of a MarkovValue list.      *)
(***************************************************************************)
\* C6: from the NULL list, after any sequence of markov_value_add_word calls
\* the count held for each word is the number of calls made with it, and the
\* total count is the number of calls.
C6_CountsMatchCalls ==
  pc \in { "value", "value_sampled" } =>
    /\ \A w \in ValueWords : CountIn(value, w) = calls[w]
    /\ total_count(value) = sum_calls(calls, ValueWords)

\* one word added three times and another once
C6_Witness ==
  /\ pc = "value"
  /\ CountIn(value, w_a) = 3
  /\ CountIn(value, w_b) = 1
  /\ calls[w_c_dot] = 0

\* C7: on a list with total count T, every draw r in [0, T) selects a word of
\* the list, and each word is selected by exactly count-many of the draws.
C7_SampleProportional ==
  (pc \in { "value", "value_sampled" } /\ value # << >>) =>
    LET T == total_count(value)
    IN  /\ \A r \in 0..(T - 1) :
             \E i \in 1..Len(value) : markov_value_get_random(value, r) = value[i].word
        /\ \A i \in 1..Len(value) :
             Cardinality({ r \in 0..(T - 1) :
                             markov_value_get_random(value, r) = value[i].word })
               = value[i].count
        /\ (pc = "value_sampled" => \E i \in 1..Len(value) : word = value[i].word)

\* the list {a: 1, b: 9}, sampled, with the heavier word drawn
C7_Witness ==
  /\ pc = "value_sampled"
  /\ Len(value) = 2
  /\ CountIn(value, w_a) = 1
  /\ CountIn(value, w_b) = 9
  /\ word = w_b

(***************************************************************************)
(* C8.  Push.                                                              *)
(***************************************************************************)
\* the last MARKOV_CONTEXT_SIZE words of a sequence, left-padded with NULL
WindowOf(ws) ==
  [i \in 1..MARKOV_CONTEXT_SIZE |->
     IF Len(ws) - MARKOV_CONTEXT_SIZE + i >= 1
       THEN ws[Len(ws) - MARKOV_CONTEXT_SIZE + i]
       ELSE NULL]

\* C8: a push drops slot 0, shifts the other slots down and puts the word in
\* the last slot, unfilled slots included; so after pushing w1..wk into a fresh
\* context it holds the last N of them, preceded by N-k unfilled slots when
\* k < N, and exactly [w1..wN] when k = N.
C8_PushShifts ==
  /\ [](pc = "context" => context = WindowOf(pushed))
  /\ [][(pc = "context" /\ Len(pushed') = Len(pushed) + 1) =>
          /\ context'[MARKOV_CONTEXT_SIZE] = pushed'[Len(pushed')]
          /\ \A i \in 1..(MARKOV_CONTEXT_SIZE - 1) : context'[i] = context[i + 1]]_vars

\* exactly N distinct-ended words pushed into a fresh context
C8_Witness ==
  /\ pc = "context"
  /\ Len(pushed) = MARKOV_CONTEXT_SIZE
  /\ context = pushed
  /\ pushed[1] # pushed[MARKOV_CONTEXT_SIZE]

(***************************************************************************)
(* C9.  The two-line scenario with context size 2.                         *)
(***************************************************************************)
EndToEnd ==
  /\ MARKOV_CONTEXT_SIZE = 2
  /\ file_ok
  /\ file = << line_abc, line_abd >>

\* C9: with context size 2, after training on "a b c." then "a b d." the
\* entry of context [a, b] holds exactly c. and d., each with count 1, and a
\* generation that reaches context [a, b] ends with the word it draws there.
C9_EndToEnd ==
  /\ []((EndToEnd /\ Trained) =>
          /\ Cardinality(TablesOf(model, << w_a, w_b >>)) = 1
          /\ \A t \in TablesOf(model, << w_a, w_b >>) :
               /\ Len(t) = 2
               /\ { t[i] : i \in 1..Len(t) } =
                    { [word |-> w_c_dot, count |-> 1], [word |-> w_d_dot, count |-> 1] })
  /\ [][(EndToEnd /\ pc = "generate" /\ quote_context = << w_a, w_b >>
           /\ get_next_calls' # get_next_calls) =>
          /\ word' \in { w_c_dot, w_d_dot }
          /\ quote' = quote \o << ch_space >> \o word'
          /\ pc' = "done"]_vars

\* the scenario, generated to its end through context [a, b]
C9_Witness ==
  /\ EndToEnd
  /\ pc = "done"
  /\ QuoteWords = << w_a, w_b, w_d_dot >>

(***************************************************************************)
(* C10.  Blank lines.                                                      *)
(***************************************************************************)
IsBlank(line) == strtok_all(line) = << >>
IsSkip(line) == ~IsBlank(line) /\ strtok_all(line)[1][1] = ch_dash
IsRetained(line) == ~IsBlank(line) /\ ~IsSkip(line)

\* the last line read that was not skipped is a blank one
BlankPrecedes(n) ==
  \E k \in 1..n : IsBlank(file[k]) /\ \A j \in (k + 1)..n : IsSkip(file[j])

\* C10: reading a line without tokens leaves the running context all unfilled
\* and the model unchanged, and the first token of the next retained line is
\* added under the all-unfilled context.
C10_BlankLineResets ==
  [][(Training /\ pos' = pos + 1) =>
       /\ IsBlank(file[pos']) =>
            /\ context' = AllUnfilled
            /\ model' = model
            /\ adds' = adds
       /\ (IsRetained(file[pos']) /\ BlankPrecedes(pos)) =>
            LET first == strtok_all(file[pos'])[1]
            IN  /\ Len(adds') > Len(adds)
                /\ adds'[Len(adds) + 1] = [context |-> AllUnfilled, word |-> first]
                /\ \E t \in TablesOf(model', AllUnfilled) : CountIn(t, first) >= 1]_vars

\* a retained line, a whitespace-only line, then a retained line, all read
C10_Witness ==
  /\ Training
  /\ pos = 3
  /\ IsRetained(file[1])
  /\ file[2] = line_ws
  /\ IsRetained(file[3])
  /\ adds[Len(strtok_all(file[1])) + 1].context = AllUnfilled

(***************************************************************************)
(* C11, C12.  What training records, told from the file alone.             *)
(***************************************************************************)
RECURSIVE RunTokens(_)
\* the retained tokens of lines 1..n that follow the last blank line
RunTokens(n) ==
  IF n = 0 THEN << >>
  ELSE IF IsBlank(file[n]) THEN << >>
  ELSE IF IsSkip(file[n]) THEN RunTokens(n - 1)
  ELSE RunTokens(n - 1) \o strtok_all(file[n])

\* the (context, word) pairs a retained line n stands for
LinePairs(n) ==
  LET toks == strtok_all(file[n])
  IN  [k \in 1..Len(toks) |->
         [context |-> WindowOf(RunTokens(n - 1) \o SubSeq(toks, 1, k - 1)),
          word |-> toks[k]]]

RECURSIVE ExpectedAdds(_)
\* the (context, word) pairs lines 1..n stand for, in order
ExpectedAdds(n) ==
  IF n = 0 THEN << >>
  ELSE ExpectedAdds(n - 1) \o (IF IsRetained(file[n]) THEN LinePairs(n) ELSE << >>)

\* C11: reading a line whose first token starts with '-' changes neither the
\* model nor the running context (no add, no push, no reset), so the first
\* token of the next retained line is added under the context formed by the
\* tokens that came before the skipped line.
C11_SkipLineIsInert ==
  [][(Training /\ pos' = pos + 1) =>
       /\ IsSkip(file[pos']) =>
            /\ context' = context
            /\ model' = model
            /\ adds' = adds
       /\ (IsRetained(file[pos']) /\ pos >= 1 /\ IsSkip(file[pos])) =>
            /\ Len(adds') > Len(adds)
            /\ adds'[Len(adds) + 1] =
                 [context |-> WindowOf(RunTokens(pos - 1)),
                  word |-> strtok_all(file[pos'])[1]]]_vars

\* a retained line, a skipped line, then a retained line, all read: the third
\* line's first token went under the context the first line left
C11_Witness ==
  /\ Training
  /\ pos = 3
  /\ IsRetained(file[1])
  /\ IsSkip(file[2])
  /\ IsRetained(file[3])
  /\ adds[Len(strtok_all(file[1])) + 1].context = WindowOf(strtok_all(file[1]))
  /\ adds[Len(strtok_all(file[1])) + 1].context # AllUnfilled

RECURSIVE sum_node_counts(_)
sum_node_counts(node) ==
  IF node = << >> THEN 0 ELSE total_count(Head(node).value) + sum_node_counts(Tail(node))

RECURSIVE sum_bucket_counts(_, _)
sum_bucket_counts(m, B) ==
  IF B = { } THEN 0
  ELSE LET b == CHOOSE x \in B : TRUE
       IN  sum_node_counts(m.nodes[b]) + sum_bucket_counts(m, B \ { b })

\* every count the model holds, summed
TotalStored(m) == sum_bucket_counts(m, UsedBuckets(m))

\* the (context, word) pairs the model holds
StoredPairs(m) ==
  UNION { { [context |-> e.context, word |-> e.value[i].word] : i \in 1..Len(e.value) } :
          e \in Entries(m) }

\* C12: at every point of training, for every context c and word w the count
\* the model holds for (c, w) is the number of retained tokens w read so far
\* whose running context (the last N retained tokens since the last blank line
\* or the start, left-padded with unfilled slots, before w is pushed) was c,
\* and all counts sum to the number of retained tokens read.
C12_CountsMatchCorpus ==
  (pc \in { "train", "loaded", "generate", "done" } /\ model # NoModel) =>
    LET expected == ExpectedAdds(pos)
        pairs == { expected[i] : i \in 1..Len(expected) }
    IN  /\ adds = expected
        /\ StoredPairs(model) = pairs
        /\ \A p \in pairs :
             /\ Cardinality(TablesOf(model, p.context)) = 1
             /\ \A t \in TablesOf(model, p.context) :
                  CountIn(t, p.word) =
                    Cardinality({ i \in 1..Len(expected) : expected[i] = p })
        /\ TotalStored(model) = Len(expected)

\* two retained lines around a blank one: the fresh context has seen a twice
C12_Witness ==
  /\ pc = "loaded"
  /\ Len(file) = 3
  /\ IsRetained(file[1])
  /\ IsBlank(file[2])
  /\ IsRetained(file[3])
  /\ \E t \in TablesOf(model, AllUnfilled) : CountIn(t, w_a) = 2

(***************************************************************************)
(* C13.  The generator stops at the first terminator.                      *)
(***************************************************************************)
\* the word holds '.', '!' or '?'
HasTerminator(w) == \E i \in 1..Len(w) : w[i] = ch_dot \/ w[i] = ch_bang \/ w[i] = ch_quest

\* C13: no word of a generated quote but the last holds a sentence terminator,
\* and once a word holding one has been appended markov_model_get_next is not
\* called again.
C13_StopsAtTerminator ==
  /\ [](\A i \in 1..(Len(QuoteWords) - 1) : ~HasTerminator(QuoteWords[i]))
  /\ []((quote # << >> /\ HasTerminator(QuoteWords[Len(QuoteWords)])) => pc = "done")
  /\ [][(quote # << >> /\ HasTerminator(QuoteWords[Len(QuoteWords)])) =>
          get_next_calls' = get_next_calls]_vars

\* a quote of three words ended by its terminator, one call per word
C13_Witness ==
  /\ pc = "done"
  /\ Len(QuoteWords) = 3
  /\ HasTerminator(QuoteWords[3])
  /\ get_next_calls = 3

(***************************************************************************)
(* C14.  Entries are unique per context and are never lost.                *)
(***************************************************************************)
\* the stored contexts of bucket b of a model, in list order
BucketContexts(m, b) == [i \in 1..Len(m.nodes[b]) |-> m.nodes[b][i].context]

RECURSIVE sum_bucket_lengths(_, _)
sum_bucket_lengths(m, B) ==
  IF B = { } THEN 0
  ELSE LET b == CHOOSE x \in B : TRUE
       IN  Len(m.nodes[b]) + sum_bucket_lengths(m, B \ { b })

\* the number of entries of a model
EntryCount(m) == sum_bucket_lengths(m, UsedBuckets(m))

IsSuffix(old, new) ==
  /\ Len(old) <= Len(new)
  /\ \A i \in 1..Len(old) : new[Len(new) - Len(old) + i] = old[i]

\* C14: after any sequence of markov_model_add_data calls no two entries hold
\* equal contexts; an add of a context not yet present makes one entry, an add
\* of a present context makes none, and no entry is ever lost.
C14_EntriesUnique ==
  /\ [](model # NoModel =>
          /\ EntryCount(model) = Cardinality(AddedContexts)
          /\ { e.context : e \in Entries(model) } = AddedContexts)
  /\ [][(model # NoModel /\ Len(adds') = Len(adds) + 1) =>
          /\ \A b \in UsedBuckets(model) :
               IsSuffix(BucketContexts(model, b), BucketContexts(model', b))
          /\ EntryCount(model') =
               IF adds'[Len(adds')].context \in AddedContexts
                 THEN EntryCount(model)
                 ELSE EntryCount(model) + 1]_vars

\* one context added twice: one entry, holding both adds
C14_Witness ==
  /\ pc = "api"
  /\ Len(adds) = 2
  /\ adds[1].context = adds[2].context
  /\ adds[1].context # AllUnfilled
  /\ EntryCount(model) = 1
  /\ TotalStored(model) = 2

(***************************************************************************)
(* C15.  Transition tables.                                                *)
(***************************************************************************)
\* C15: every table the model stores is non-empty, holds each word once and
\* every count at least 1; no step removes a word from a table or lowers a
\* count.
C15_TablesWellFormed ==
  /\ [](\A e \in Entries(model) :
          /\ e.value # << >>
          /\ \A i, j \in 1..Len(e.value) : e.value[i].word = e.value[j].word => i = j
          /\ \A i \in 1..Len(e.value) : e.value[i].count >= 1)
  /\ [][model' = model \/
        LET after == Entries(model')
        IN  \A e \in Entries(model) :
              \A i \in 1..Len(e.value) :
                \E f \in after :
                  /\ f.context = e.context
                  /\ CountIn(f.value, e.value[i].word) >= e.value[i].count]_vars

\* a table of two words, one of them counted more than once
C15_Witness ==
  /\ pc = "loaded"
  /\ \E e \in Entries(model) :
       /\ Len(e.value) = 2
       /\ \E i \in 1..2 : e.value[i].count >= 2

(***************************************************************************)
(* C16.  Bucket placement.                                                 *)
(***************************************************************************)
BucketOf(ctx) == hash_mod(markov_context_get_hash(ctx), HASH_MAP_SIZE)

\* the contexts the program holds or has handed to the model
KnownContexts == { context, quote_context } \cup AddedContexts

\* C16: every entry sits in bucket fingerprint(stored context) mod bucket
\* count, and a context equal to a stored one has its fingerprint, so its
\* lookup scans the bucket that holds the entry.
C16_EntriesInOwnBucket ==
  model # NoModel =>
    \A b \in DOMAIN model.nodes :
      \A i \in 1..Len(model.nodes[b]) :
        /\ BucketOf(model.nodes[b][i].context) = b
        /\ \A c \in KnownContexts :
             markov_context_check_match(model.nodes[b][i].context, c) =>
               /\ markov_context_get_hash(c) = markov_context_get_hash(model.nodes[b][i].context)
               /\ BucketOf(c) = b

\* 420 buckets, three entries spread over more than one bucket
C16_Witness ==
  /\ pc = "loaded"
  /\ model # NoModel
  /\ HASH_MAP_SIZE = 420
  /\ MARKOV_CONTEXT_SIZE = 3
  /\ EntryCount(model) >= 3
  /\ Cardinality({ b \in DOMAIN model.nodes : model.nodes[b] # << >> }) >= 2
  /\ \E e \in Entries(model) : \A i \in 1..MARKOV_CONTEXT_SIZE : e.context[i] # NULL

(***************************************************************************)
(* C17.  Stored contexts are the caller's, and are never changed.          *)
(***************************************************************************)
\* C17: the context an entry stores is, slot for slot, the caller's context at
\* the add that made the entry, and no later step (push or reset of a running
\* context, add, lookup) changes the context of any stored entry.
C17_StoredContextsFixed ==
  /\ [](model # NoModel => { e.context : e \in Entries(model) } = AddedContexts)
  /\ [][(model # NoModel /\ model' # model) =>
          /\ model' # NoModel
          /\ \A b \in UsedBuckets(model) :
               IsSuffix(BucketContexts(model, b), BucketContexts(model', b))]_vars
  /\ [][(model # NoModel /\ model' # model /\ adds' = adds) =>
          /\ UsedBuckets(model') = UsedBuckets(model)
          /\ \A b \in UsedBuckets(model) :
               BucketContexts(model', b) = BucketContexts(model, b)]_vars

\* the running context has been reset and pushed on after an entry was made
\* for a partly filled context
C17_Witness ==
  /\ Training
  /\ pos = 3
  /\ IsRetained(file[1])
  /\ IsBlank(file[2])
  /\ IsRetained(file[3])
  /\ \E e \in Entries(model) :
       /\ e.context[1] = NULL
       /\ e.context[MARKOV_CONTEXT_SIZE] # NULL
       /\ e.context # context

(***************************************************************************)
(* C18.  Generation does not write the model.                              *)
(***************************************************************************)
\* C18: markov_model_get_next and a whole run of markov_model_generate_quote
\* leave the model as it was: the same entries, contexts and counts.
C18_GenerationReadOnly ==
  /\ [][(pc \in { "loaded", "generate" }) => (model' = model /\ adds' = adds)]_vars
  /\ []((pc \in { "generate", "done" } /\ model # NoModel) =>
          /\ adds = ExpectedAdds(Len(file))
          /\ TotalStored(model) = Len(adds))

\* a quote of two words drawn from a trained model
C18_Witness ==
  /\ pc = "done"
  /\ model # NoModel
  /\ Entries(model) # { }
  /\ Len(QuoteWords) >= 2
  /\ get_next_calls >= 2

(***************************************************************************)
(* C19.  Generation terminates.                                            *)
(***************************************************************************)
GenerationEnded == pc \in { "done", "crashed" }

\* C19: for every model and every sequence of draws, cyclic models without a
\* terminator included, generation ends after at most MAX_QUOTE_LENGTH + 1
\* calls of markov_model_get_next: the counter never passes
\* MAX_QUOTE_LENGTH + 1, it equals the number of calls made while the loop
\* runs, and every step taken inside the loop either leaves it (by absence, by
\* a terminator word, by the length bound, or by a fault) or raises the counter
\* by one with exactly one more call.
C19_GenerationTerminates ==
  /\ [](get_next_calls <= MAX_QUOTE_LENGTH + 1)
  /\ [](pc = "generate" =>
          /\ counter <= MAX_QUOTE_LENGTH + 1
          /\ get_next_calls = counter)
  /\ [][pc = "generate" =>
          \/ GenerationEnded'
          \/ /\ pc' = "generate"
             /\ counter' = counter + 1
             /\ get_next_calls' = get_next_calls + 1]_vars

\* a cyclic model without a terminator, stopped by the length bound
C19_Witness ==
  /\ pc = "done"
  /\ SingleSuccessorModel
  /\ counter = MAX_QUOTE_LENGTH + 1
  /\ get_next_calls = MAX_QUOTE_LENGTH + 1
  /\ ub = "none"

(***************************************************************************)
(* C20.  Every generated word was seen in training after its context.      *)
(***************************************************************************)
\* C20: for every position i of the generated quote, training recorded word i
\* under the context made of the N quote words before it (left-padded with
\* unfilled slots), so the model holds a count >= 1 for that pair; the first
\* word was recorded under the all-unfilled context.
C20_QuoteFollowsTraining ==
  (pc \in { "generate", "done", "crashed" } /\ model # NoModel) =>
    \A i \in 1..Len(QuoteWords) :
      LET before == WindowOf(SubSeq(QuoteWords, 1, i - 1))
      IN  /\ \E k \in 1..Len(adds) : adds[k] = [context |-> before, word |-> QuoteWords[i]]
          /\ \E t \in TablesOf(model, before) : CountIn(t, QuoteWords[i]) >= 1
          /\ (i = 1 => before = AllUnfilled)

\* a quote of three words from a model with one bucket and several entries
C20_Witness ==
  /\ pc = "done"
  /\ model # NoModel
  /\ HASH_MAP_SIZE = 1
  /\ Len(QuoteWords) = 3
  /\ EntryCount(model) >= 4

(***************************************************************************)
(* C21.  Unfilled slots form a prefix; copy is then the identity.          *)
(***************************************************************************)
\* no filled slot is followed by an unfilled one
UnfilledPrefix(ctx) ==
  \A i \in 1..(MARKOV_CONTEXT_SIZE - 1) : ctx[i] # NULL => ctx[i + 1] # NULL

\* markov_context_copy returns its argument slot for slot
CopyIsExact(ctx) ==
  \A i \in 1..MARKOV_CONTEXT_SIZE : markov_context_copy(ctx)[i] = ctx[i]

\* C21: in every state the trainer and the generator reach through new, push
\* and reset, the unfilled slots of the training context, of the generator's
\* context and of every stored context form a prefix, and markov_context_copy
\* returns each of them slot for slot.
C21_UnfilledSlotsFormPrefix ==
  /\ UnfilledPrefix(context) /\ CopyIsExact(context)
  /\ UnfilledPrefix(quote_context) /\ CopyIsExact(quote_context)
  /\ \A e \in Entries(model) : UnfilledPrefix(e.context) /\ CopyIsExact(e.context)

\* the part of C21 that the code keeps: the training context and the stored
\* contexts always have their unfilled slots first and are copied exactly, and
\* so is the generator's context as long as no NULL word has been pushed
C21_PrefixWhileDefined ==
  /\ UnfilledPrefix(context) /\ CopyIsExact(context)
  /\ \A e \in Entries(model) : UnfilledPrefix(e.context) /\ CopyIsExact(e.context)
  /\ ub # "strdup(NULL)" => UnfilledPrefix(quote_context) /\ CopyIsExact(quote_context)

\* the generator's context after an absent word was pushed behind a word
C21_NullPushedBehindWord ==
  /\ pc = "done"
  /\ ub = "strdup(NULL)"
  /\ quote_context[MARKOV_CONTEXT_SIZE] = NULL
  /\ quote_context[MARKOV_CONTEXT_SIZE - 1] # NULL
  /\ ~CopyIsExact(quote_context)

====
